---- MODULE Spec2Model ----
(***************************************************************************)
(* A model of scripts/git-analysis.py: the file selector, the snippet      *)
(* budget loop and the answer parser of the analyzer, the paginated tree   *)
(* walk, the report writer and the sequencing of main.                     *)
(*                                                                         *)
(* Text is modelled as a sequence of one-character strings, so that        *)
(* find/rfind, slicing, endswith, regular-expression search and JSON       *)
(* parsing are computed character by character, as the interpreter does.   *)
(***************************************************************************)
EXTENDS Integers, Sequences, FiniteSets, TLC

VARIABLES
  pc,             \* position inside the modelled function
  files,          \* sample_files_for_llm: the files argument
  limit,          \* sample_files_for_llm: the limit argument
  selected,       \* sample_files_for_llm: the returned list
  sampled_files,  \* analyze: len(text) of each sampled file, in dict order
  idx,            \* analyze: position of the snippet loop in sampled_files
  used,           \* analyze: the snippet loop's character count
  snippet_pairs,  \* analyze: positions of the files a snippet was added for
  MAX_FILES,      \* the configured safety cap
  items_len,      \* walk_tree: len(items)
  page,           \* walk_tree: the page requested next
  prose_before,   \* the generation output: the prose before the embedded text
  embedded,       \* the generation output: the embedded text
  prose_after,    \* the generation output: the prose after the embedded text
  out,            \* analyze: the output text
  parsed_text,    \* analyze: out[start:end+1], the text given to json.loads
  analysis,       \* main: the dict analyze returned
  c4_txts,        \* main: the documents emit_c4_plantuml returned
  mindmap_mermaid,\* main: the text emit_mermaid_mindmap returned
  written,        \* the names of the files written in the output directory
  readme,         \* the lines of README.md, once written
  env,            \* main: the process environment, per required name
  stderr,         \* main: the messages printed to sys.stderr
  exit_code,      \* main: the exit status, -1 while the process runs
  net_calls,      \* main: the network calls made so far, in order
  pages,          \* main: the tree pages requested so far
  to_fetch        \* main: the selected paths still to go through

selVars  == <<files, limit, selected>>

snipVars == <<sampled_files, idx, used, snippet_pairs>>

walkVars == <<MAX_FILES, items_len, page>>

inputVars == <<prose_before, embedded, prose_after, out>>

parseVars == <<inputVars, parsed_text, analysis, c4_txts, mindmap_mermaid,
               written, readme>>

mainVars == <<env, stderr, exit_code, net_calls, pages, to_fetch>>

vars == <<pc, selVars, snipVars, walkVars, parseVars, mainVars>>

(***************************************************************************)
(* Generic helpers on sequences                                            *)
(***************************************************************************)
Min(a, b) == IF a <= b THEN a ELSE b

Max(a, b) == IF a >= b THEN a ELSE b

Range(s) == {s[i] : i \in 1..Len(s)}

\* s[:n] of Python for n >= 0
Prefix(s, n) == SubSeq(s, 1, Min(n, Len(s)))

\* all sequences over S of length at most n
SeqsUpTo(S, n) == UNION {[1..k -> S] : k \in 0..n}

\* a slip: repeated elements kept
DictKeepAll(s) == s

\* list(dict.fromkeys(s)): the first occurrence of each element, in order
RECURSIVE DictFromKeys(_)
DictFromKeys(s) ==
  IF s = <<>> THEN <<>>
  ELSE LET init == DictFromKeys(SubSeq(s, 1, Len(s) - 1))
           last == s[Len(s)]
       IN IF last \in Range(init) THEN init ELSE Append(init, last)

(***************************************************************************)
(* Characters: str.lower() and re.IGNORECASE on ASCII letters              *)
(***************************************************************************)
UpperLetters ==
  <<"A", "B", "C", "D", "E", "F", "G", "H", "I", "J", "K", "L", "M",
    "N", "O", "P", "Q", "R", "S", "T", "U", "V", "W", "X", "Y", "Z">>

LowerLetters ==
  <<"a", "b", "c", "d", "e", "f", "g", "h", "i", "j", "k", "l", "m",
    "n", "o", "p", "q", "r", "s", "t", "u", "v", "w", "x", "y", "z">>

LowerChar(c) ==
  IF \E i \in 1..Len(UpperLetters) : UpperLetters[i] = c
  THEN LowerLetters[CHOOSE i \in 1..Len(UpperLetters) : UpperLetters[i] = c]
  ELSE c

Lower(s) == [i \in 1..Len(s) |-> LowerChar(s[i])]

\* s.endswith(suffix)
EndsWith(s, suffix) ==
  /\ Len(suffix) <= Len(s)
  /\ SubSeq(s, Len(s) - Len(suffix) + 1, Len(s)) = suffix

\* os.path.basename(s): what follows the last "/"
Basename(s) ==
  LET slashes == {i \in 1..Len(s) : s[i] = "/"}
      last    == IF slashes = {} THEN 0
                 ELSE CHOOSE i \in slashes : \A j \in slashes : j <= i
  IN SubSeq(s, last + 1, Len(s))

(***************************************************************************)
(* is_text_file                                                            *)
(***************************************************************************)
text_ext ==
  << <<".", "p", "y">>,
     <<".", "j", "s">>,
     <<".", "t", "s">>,
     <<".", "j", "a", "v", "a">>,
     <<".", "g", "o">>,
     <<".", "r", "b">>,
     <<".", "p", "h", "p">>,
     <<".", "c", "s">>,
     <<".", "c", "p", "p">>,
     <<".", "c">>,
     <<".", "h">>,
     <<".", "h", "p", "p">>,
     <<".", "r", "s">>,
     <<".", "k", "t">>,
     <<".", "m">>,
     <<".", "s", "w", "i", "f", "t">>,
     <<".", "s", "c", "a", "l", "a">>,
     <<".", "s", "q", "l">>,
     <<".", "y", "a", "m", "l">>,
     <<".", "y", "m", "l">>,
     <<".", "j", "s", "o", "n">>,
     <<".", "t", "o", "m", "l">>,
     <<".", "i", "n", "i">>,
     <<".", "c", "f", "g">>,
     <<".", "m", "d">>,
     <<".", "t", "x", "t">>,
     <<".", "s", "h">>,
     <<".", "b", "a", "s", "h">>,
     <<".", "p", "s", "1">>,
     <<".", "x", "m", "l">>,
     <<".", "h", "t", "m", "l">>,
     <<".", "c", "s", "s">>,
     <<".", "v", "u", "e">>,
     <<".", "s", "v", "e", "l", "t", "e">>,
     <<".", "g", "r", "a", "d", "l", "e">>,
     <<".", "p", "r", "o", "p", "e", "r", "t", "i", "e", "s">>,
     <<".", "d", "o", "c", "k", "e", "r", "f", "i", "l", "e">>,
     <<".", "d", "o", "c", "k", "e", "r", "i", "g", "n", "o", "r", "e">>,
     <<".", "g", "i", "t", "i", "g", "n", "o", "r", "e">> >>

text_basenames ==
  { <<"d", "o", "c", "k", "e", "r", "f", "i", "l", "e">>,
    <<"m", "a", "k", "e", "f", "i", "l", "e">>,
    <<"p", "r", "o", "c", "f", "i", "l", "e">> }

is_text_file(name) ==
  LET lower == Lower(name)
  IN \/ \E i \in 1..Len(text_ext) : EndsWith(lower, text_ext[i])
     \/ Basename(lower) \in text_basenames

(***************************************************************************)
(* Regular expressions: the subset of Python's re the patterns use.        *)
(* A regular expression is a sequence of items; ReEnds gives the set of    *)
(* offsets at which a match of the whole sequence, begun at one of the     *)
(* offsets of `from', can end.  An offset counts the characters consumed.  *)
(***************************************************************************)
Lit(chars) == [k |-> "lit", s |-> chars]       \* literal text

Dot        == [k |-> "dot"]                    \* .   (any character but "\n")

DotStar    == [k |-> "dotstar"]                \* .*

Opt(re)    == [k |-> "opt", r |-> re]          \* (...)?  or  x?

Alt(res)   == [k |-> "alt", rs |-> res]        \* (a|b|c)

Bol        == [k |-> "bol"]                    \* ^

Eol        == [k |-> "eol"]                    \* $

RECURSIVE ReEnds(_, _, _)
ReItemEnds(item, s, i) ==
  CASE item.k = "lit" ->
         IF /\ i + Len(item.s) <= Len(s)
            /\ Lower(SubSeq(s, i + 1, i + Len(item.s))) = Lower(item.s)
         THEN {i + Len(item.s)} ELSE {}
    [] item.k = "dot" ->
         IF i < Len(s) /\ s[i + 1] # "\n" THEN {i + 1} ELSE {}
    [] item.k = "dotstar" ->
         {j \in i..Len(s) : \A m \in (i + 1)..j : s[m] # "\n"}
    [] item.k = "opt" -> {i} \cup ReEnds(item.r, s, {i})
    [] item.k = "alt" ->
         UNION {ReEnds(item.rs[a], s, {i}) : a \in 1..Len(item.rs)}
    [] item.k = "bol" -> IF i = 0 THEN {i} ELSE {}
    [] item.k = "eol" ->
         IF i = Len(s) \/ (i = Len(s) - 1 /\ s[Len(s)] = "\n") THEN {i} ELSE {}

ReEnds(re, s, from) ==
  IF re = <<>> \/ from = {} THEN from
  ELSE ReEnds(Tail(re), s, UNION {ReItemEnds(Head(re), s, i) : i \in from})

\* re.search(pattern, s, flags=re.IGNORECASE) is not None
re_search(re, s) == ReEnds(re, s, 0..Len(s)) # {}

(***************************************************************************)
(* sample_files_for_llm: the ordered patterns.  The source writes them as  *)
(* raw strings holding "\\.", which the re module reads as a literal       *)
(* backslash followed by any character.                                    *)
(***************************************************************************)
ReStart  == Alt(<< <<Bol>>, <<Lit(<<"/">>)>> >>)     \* (^|/)

ReEscDot == <<Lit(<<"\\">>), Dot>>                   \* \\.

patterns ==
  <<
     \* (^|/)requirements\\.txt$
     <<ReStart, Lit(<<"r", "e", "q", "u", "i", "r", "e", "m", "e", "n", "t", "s">>)>>
       \o ReEscDot
       \o <<Lit(<<"t", "x", "t">>), Eol>>,
     \* (^|/)pyproject\\.toml$
     <<ReStart, Lit(<<"p", "y", "p", "r", "o", "j", "e", "c", "t">>)>>
       \o ReEscDot
       \o <<Lit(<<"t", "o", "m", "l">>), Eol>>,
     \* (^|/)poetry\\.lock$
     <<ReStart, Lit(<<"p", "o", "e", "t", "r", "y">>)>>
       \o ReEscDot
       \o <<Lit(<<"l", "o", "c", "k">>), Eol>>,
     \* (^|/)package\\.json$
     <<ReStart, Lit(<<"p", "a", "c", "k", "a", "g", "e">>)>>
       \o ReEscDot
       \o <<Lit(<<"j", "s", "o", "n">>), Eol>>,
     \* (^|/)build\\.gradle(\\.kts)?$
     <<ReStart, Lit(<<"b", "u", "i", "l", "d">>)>>
       \o ReEscDot
       \o <<Lit(<<"g", "r", "a", "d", "l", "e">>), Opt(ReEscDot \o <<Lit(<<"k", "t", "s">>)>>), Eol>>,
     \* (^|/)pom\\.xml$
     <<ReStart, Lit(<<"p", "o", "m">>)>>
       \o ReEscDot
       \o <<Lit(<<"x", "m", "l">>), Eol>>,
     \* (^|/)Dockerfile$
     <<ReStart, Lit(<<"D", "o", "c", "k", "e", "r", "f", "i", "l", "e">>), Eol>>,
     \* (^|/)docker-compose\\.ya?ml$
     <<ReStart, Lit(<<"d", "o", "c", "k", "e", "r", "-", "c", "o", "m", "p", "o", "s", "e">>)>>
       \o ReEscDot
       \o <<Lit(<<"y">>), Opt(<<Lit(<<"a">>)>>), Lit(<<"m", "l">>), Eol>>,
     \* (^|/).*\\.ya?ml$
     <<ReStart, DotStar>>
       \o ReEscDot
       \o <<Lit(<<"y">>), Opt(<<Lit(<<"a">>)>>), Lit(<<"m", "l">>), Eol>>,
     \* (^|/)Makefile$
     <<ReStart, Lit(<<"M", "a", "k", "e", "f", "i", "l", "e">>), Eol>>,
     \* (^|/).*settings\\.py$
     <<ReStart, DotStar, Lit(<<"s", "e", "t", "t", "i", "n", "g", "s">>)>>
       \o ReEscDot
       \o <<Lit(<<"p", "y">>), Eol>>,
     \* (^|/)main\\.(py|js|ts|go|java)$
     <<ReStart, Lit(<<"m", "a", "i", "n">>)>>
       \o ReEscDot
       \o <<Alt(<<<<Lit(<<"p", "y">>)>>, <<Lit(<<"j", "s">>)>>, <<Lit(<<"t", "s">>)>>, <<Lit(<<"g", "o">>)>>, <<Lit(<<"j", "a", "v", "a">>)>>>>), Eol>>,
     \* (^|/)app\\.(py|js|ts)$
     <<ReStart, Lit(<<"a", "p", "p">>)>>
       \o ReEscDot
       \o <<Alt(<<<<Lit(<<"p", "y">>)>>, <<Lit(<<"j", "s">>)>>, <<Lit(<<"t", "s">>)>>>>), Eol>>,
     \* (^|/).*init\\.py$
     <<ReStart, DotStar, Lit(<<"i", "n", "i", "t">>)>>
       \o ReEscDot
       \o <<Lit(<<"p", "y">>), Eol>>,
     \* (^|/).*routes?\\.py$
     <<ReStart, DotStar, Lit(<<"r", "o", "u", "t", "e">>), Opt(<<Lit(<<"s">>)>>)>>
       \o ReEscDot
       \o <<Lit(<<"p", "y">>), Eol>>,
     \* (^|/).*controller.*\\.(py|js|ts)$
     <<ReStart, DotStar, Lit(<<"c", "o", "n", "t", "r", "o", "l", "l", "e", "r">>), DotStar>>
       \o ReEscDot
       \o <<Alt(<<<<Lit(<<"p", "y">>)>>, <<Lit(<<"j", "s">>)>>, <<Lit(<<"t", "s">>)>>>>), Eol>>,
     \* (^|/).*service.*\\.(py|js|ts)$
     <<ReStart, DotStar, Lit(<<"s", "e", "r", "v", "i", "c", "e">>), DotStar>>
       \o ReEscDot
       \o <<Alt(<<<<Lit(<<"p", "y">>)>>, <<Lit(<<"j", "s">>)>>, <<Lit(<<"t", "s">>)>>>>), Eol>>,
     \* (^|/).*config.*\\.(py|js|ts|yaml|yml)$
     <<ReStart, DotStar, Lit(<<"c", "o", "n", "f", "i", "g">>), DotStar>>
       \o ReEscDot
       \o <<Alt(<<<<Lit(<<"p", "y">>)>>, <<Lit(<<"j", "s">>)>>, <<Lit(<<"t", "s">>)>>, <<Lit(<<"y", "a", "m", "l">>)>>, <<Lit(<<"y", "m", "l">>)>>>>), Eol>>
  >>

(***************************************************************************)
(* The paths the file lists are drawn from                                 *)
(***************************************************************************)
P_requirements_txt == <<"r", "e", "q", "u", "i", "r", "e", "m", "e", "n", "t", "s", ".", "t", "x", "t">>   \* requirements.txt

P_a_py == <<"s", "r", "c", "/", "a", ".", "p", "y">>   \* src/a.py

P_b_py == <<"b", ".", "p", "y">>   \* b.py

P_logo_png == <<"l", "o", "g", "o", ".", "p", "n", "g">>   \* logo.png

P_sub_Makefile == <<"s", "u", "b", "/", "M", "a", "k", "e", "f", "i", "l", "e">>   \* sub/Makefile

P_DOCKERFILE == <<"D", "O", "C", "K", "E", "R", "F", "I", "L", "E">>   \* DOCKERFILE

P_config_yml == <<"c", "o", "n", "f", "i", "g", "\\", ".", "y", "m", "l">>   \* config\.yml

P_poetry_lock == <<"p", "o", "e", "t", "r", "y", "\\", ".", "l", "o", "c", "k">>   \* poetry\.lock

PathPool ==
  { P_requirements_txt, P_a_py, P_b_py, P_logo_png,
    P_sub_Makefile, P_DOCKERFILE, P_config_yml, P_poetry_lock }

\* re.search(patterns[p], f, flags=re.IGNORECASE), tabulated over the pool
MatchTable ==
  [p \in 1..Len(patterns) |-> [f \in PathPool |-> re_search(patterns[p], f)]]

Matches(p, f) == MatchTable[p][f]

\* for p in patterns: for f in files: if re.search(p, f): priority.append(f)
RECURSIVE PriorityUpTo(_, _)
PriorityUpTo(fs, n) ==
  IF n = 0 THEN <<>>
  ELSE PriorityUpTo(fs, n - 1) \o SelectSeq(fs, LAMBDA f : Matches(n, f))

\* a slip: the loops swapped (for f in files: for p in patterns)
priority_by_file(fs) ==
  SelectSeq(fs, LAMBDA f : \E p \in 1..Len(patterns) : Matches(p, f))

priority(fs) == PriorityUpTo(fs, Len(patterns))

\* [f for f in files if f not in priority and is_text_file(f)]
remainder(fs) ==
  SelectSeq(fs, LAMBDA f : f \notin Range(priority(fs)) /\ is_text_file(f))

sample_files_for_llm(fs, lim) ==
  Prefix(DictFromKeys(priority(fs) \o remainder(fs)), lim)

(***************************************************************************)
(* Values of the variables a specification does not use                    *)
(***************************************************************************)
IdleSelect == files = <<>> /\ limit = 0 /\ selected = <<>>

IdleSnippets ==
  sampled_files = <<>> /\ idx = 0 /\ used = 0 /\ snippet_pairs = <<>>

IdleWalk == MAX_FILES = 0 /\ items_len = 0 /\ page = 0

IdleParse ==
  /\ prose_before = <<>> /\ embedded = <<>> /\ prose_after = <<>> /\ out = <<>>
  /\ parsed_text = <<>> /\ analysis = <<>> /\ c4_txts = <<>>
  /\ mindmap_mermaid = <<>> /\ written = {} /\ readme = <<>>

IdleMain ==
  /\ env = <<>> /\ stderr = <<>> /\ exit_code = -1 /\ net_calls = <<>>
  /\ pages = 0 /\ to_fetch = 0

(***************************************************************************)
(* Specification of the file selector: any file list over the pool, with   *)
(* repeats, and any limit; one call.                                       *)
(***************************************************************************)
MaxFiles == 3

MaxLimit == 3

InitSelect ==
  /\ pc = "select"
  /\ files \in SeqsUpTo(PathPool, MaxFiles)
  /\ limit \in 0..MaxLimit
  /\ selected = <<>>
  /\ IdleSnippets /\ IdleWalk /\ IdleParse /\ IdleMain

Sample ==
  /\ pc = "select"
  /\ selected' = sample_files_for_llm(files, limit)
  /\ pc' = "selected"
  /\ UNCHANGED <<files, limit, snipVars, walkVars, parseVars, mainVars>>

NextSelect == Sample

SpecSelect == InitSelect /\ [][NextSelect]_vars

\* the earliest rule a path matches; Len(patterns) + 1 when it matches none
FirstRule(f) ==
  LET ms == {p \in 1..Len(patterns) : re_search(patterns[p], f)}
  IN IF ms = {} THEN Len(patterns) + 1
     ELSE CHOOSE p \in ms : \A q \in ms : p <= q

FirstRuleTable == [f \in PathPool |-> FirstRule(f)]

\* the position of the first occurrence of f in the tree listing
FirstIndex(fs, f) ==
  CHOOSE i \in 1..Len(fs) : fs[i] = f /\ \A j \in 1..(i - 1) : fs[j] # f

\* C1: for every file list, repeats included, and every limit >= 0, the
\* list sample_files_for_llm returns is at most limit long and holds no
\* path twice.
C1_BoundedNoDuplicates ==
  pc = "selected" =>
    /\ Len(selected) <= limit
    /\ \A i, j \in 1..Len(selected) : i # j => selected[i] # selected[j]

\* a call on a list that repeats a selected path and is cut by the limit
C1_Witness ==
  /\ pc = "selected"
  /\ limit >= 1
  /\ Len(selected) = limit
  /\ \E i, j \in 1..Len(files) :
       i # j /\ files[i] = files[j] /\ files[i] \in Range(selected)
  /\ \E f \in Range(files) : is_text_file(f) /\ f \notin Range(selected)

\* C2: in the output, a path whose earliest matching rule is i never comes
\* after a path whose earliest rule is later or that matches no rule, and
\* paths with the same earliest rule (or with none) keep the tree order.
C2_PriorityOrder ==
  pc = "selected" =>
    \A a, b \in 1..Len(selected) :
      a < b =>
        LET ra == FirstRuleTable[selected[a]]
            rb == FirstRuleTable[selected[b]]
        IN \/ ra < rb
           \/ /\ ra = rb
              /\ FirstIndex(files, selected[a]) < FirstIndex(files, selected[b])

\* a call that moved a rule-matching path ahead of paths listed before it,
\* and kept two paths of one class in tree order
C2_Witness ==
  /\ pc = "selected"
  /\ \E a, b \in 1..Len(selected) :
       /\ a < b
       /\ FirstRuleTable[selected[a]] < FirstRuleTable[selected[b]]
       /\ FirstIndex(files, selected[a]) > FirstIndex(files, selected[b])
  /\ \E a, b \in 1..Len(selected) :
       a < b /\ FirstRuleTable[selected[a]] = FirstRuleTable[selected[b]]

\* the manifest/build file names the claim gives
ManifestNames ==
  { <<"r", "e", "q", "u", "i", "r", "e", "m", "e", "n", "t", "s", ".", "t", "x", "t">>,
    <<"p", "y", "p", "r", "o", "j", "e", "c", "t", ".", "t", "o", "m", "l">>,
    <<"p", "a", "c", "k", "a", "g", "e", ".", "j", "s", "o", "n">>,
    <<"p", "o", "m", ".", "x", "m", "l">> }

IsManifest(f) == Basename(f) \in ManifestNames

IsPlainSource(f) ==
  is_text_file(f) /\ ~IsManifest(f) /\ FirstRuleTable[f] > Len(patterns)

\* C3: for a tree of distinct paths with exactly one manifest file, the
\* rest plain source text files, and 1 <= limit < tree size, the result is
\* the manifest file followed by the first limit - 1 source files in tree
\* order.
C3_ManifestFirst ==
  \A m \in 1..Len(files) :
    ( /\ pc = "selected"
      /\ 1 <= limit /\ limit < Len(files)
      /\ Cardinality(Range(files)) = Len(files)
      /\ IsManifest(files[m])
      /\ \A i \in 1..Len(files) : i # m => IsPlainSource(files[i]) )
    => selected =
         Prefix(<<files[m]>> \o SelectSeq(files, LAMBDA f : f # files[m]), limit)

(***************************************************************************)
(* analyze, the snippet loop (lines 142-151)                               *)
(***************************************************************************)
analyze_limit == 12000     \* limit = 12000

short_len == 3000          \* short = text[:3000]

\* len(text[:3000])
LenShort(textLen) == Min(textLen, short_len)

\* a slip: the comparison not strict
LoopBreaksAtLimit(u) == u >= analyze_limit

\* if used > limit: break
LoopBreaks(u) == u > analyze_limit

MaxSampled == 6

TextLens == {0, 1, 3000, 4000}

InitSnippets ==
  /\ pc = "loop"
  /\ sampled_files \in SeqsUpTo(TextLens, MaxSampled)
  /\ idx = 1
  /\ used = 0
  /\ snippet_pairs = <<>>
  /\ IdleSelect /\ IdleWalk /\ IdleParse /\ IdleMain

\* the iterator yields the next (path, text) and the cap is not yet crossed
LoopBody ==
  /\ pc = "loop"
  /\ idx <= Len(sampled_files)
  /\ ~LoopBreaks(used)
  /\ snippet_pairs' = Append(snippet_pairs, idx)
  /\ used' = used + LenShort(sampled_files[idx])
  /\ idx' = idx + 1
  /\ UNCHANGED <<pc, sampled_files, selVars, walkVars, parseVars, mainVars>>

\* the iterator yields the next (path, text) and used > limit: break
LoopBreak ==
  /\ pc = "loop"
  /\ idx <= Len(sampled_files)
  /\ LoopBreaks(used)
  /\ pc' = "assembled"
  /\ UNCHANGED <<snipVars, selVars, walkVars, parseVars, mainVars>>

\* the iterator is exhausted
LoopExhausted ==
  /\ pc = "loop"
  /\ idx > Len(sampled_files)
  /\ pc' = "assembled"
  /\ UNCHANGED <<snipVars, selVars, walkVars, parseVars, mainVars>>

NextSnippets == LoopBody \/ LoopBreak \/ LoopExhausted

SpecSnippets == InitSnippets /\ [][NextSnippets]_vars

\* the characters the files before position i count for, each at most 3000
RECURSIVE CountedBefore(_, _)
CountedBefore(texts, i) ==
  IF i <= 1 THEN 0
  ELSE CountedBefore(texts, i - 1)
         + (IF texts[i - 1] <= 3000 THEN texts[i - 1] ELSE 3000)

\* C7: a file's snippet is added exactly when the characters counted for
\* the files before it do not exceed 12000, each file counting for at most
\* 3000; the file that first pushes the count above 12000 is included and
\* none after it is.
C7_SnippetCap ==
  pc = "assembled" =>
    /\ \A i \in 1..Len(sampled_files) :
         (i \in Range(snippet_pairs)) <=> (CountedBefore(sampled_files, i) <= 12000)
    /\ used = CountedBefore(sampled_files, Len(snippet_pairs) + 1)
    /\ \A i \in 1..Len(sampled_files) :
         ( /\ CountedBefore(sampled_files, i) <= 12000
           /\ CountedBefore(sampled_files, i + 1) > 12000 )
         => /\ i \in Range(snippet_pairs)
            /\ \A j \in (i + 1)..Len(sampled_files) : j \notin Range(snippet_pairs)

\* a run in which one file pushed the count above 12000, is included, and
\* a later file was skipped
C7_Witness ==
  /\ pc = "assembled"
  /\ used > 12000
  /\ Len(snippet_pairs) < Len(sampled_files)
  /\ CountedBefore(sampled_files, Len(snippet_pairs)) <= 12000
  /\ \E i \in Range(snippet_pairs) : sampled_files[i] > 3000

(***************************************************************************)
(* GitLabRepo.walk_tree (lines 89-101).  The provider answers each page    *)
(* request with a chunk of at most per_page entries.                       *)
(***************************************************************************)
per_page == 100

MAX_FILES_DEFAULT == 400

MaxFilesChoices == {1, 250, MAX_FILES_DEFAULT}

ChunkSizes == {0, 1, per_page - 1, per_page}

InitWalk ==
  /\ pc = "walk"
  /\ MAX_FILES \in MaxFilesChoices
  /\ items_len = 0
  /\ page = 1
  /\ IdleSelect /\ IdleSnippets /\ IdleParse /\ IdleMain

\* chunk = repository_tree(...); if not chunk: break
WalkEmptyChunk ==
  /\ pc = "walk"
  /\ pc' = "walked"
  /\ UNCHANGED <<walkVars, selVars, snipVars, parseVars, mainVars>>

\* items.extend(chunk); page += 1; if len(items) >= MAX_FILES: break
WalkChunk ==
  /\ pc = "walk"
  /\ \E n \in ChunkSizes \ {0} :
       /\ items_len' = items_len + n
       /\ page' = page + 1
       /\ pc' = IF items_len + n >= MAX_FILES THEN "walked" ELSE "walk"
  /\ UNCHANGED <<MAX_FILES, selVars, snipVars, parseVars, mainVars>>

NextWalk == WalkEmptyChunk \/ WalkChunk

SpecWalk == InitWalk /\ [][NextWalk]_vars

\* C8: the number of tree entries walk_tree returns never exceeds MAX_FILES.
C8_WithinCap == pc = "walked" => items_len <= MAX_FILES

(***************************************************************************)
(* Python values, as json.loads builds them.  Every value is a record      *)
(* [t, v]: t the type, v the payload.  A dict is the sequence of its       *)
(* <<key, value>> pairs in insertion order; a str is its characters.       *)
(***************************************************************************)
PyStr(chars)  == [t |-> "str",  v |-> chars]

PyNum(chars)  == [t |-> "num",  v |-> chars]    \* an int or float, by its literal

PyBool(b)     == [t |-> "bool", v |-> b]

PyNone        == [t |-> "null", v |-> <<>>]

PyList(elems) == [t |-> "list", v |-> elems]

PyDict(pairs) == [t |-> "dict", v |-> pairs]

\* d[key] = val
DictSet(pairs, key, val) ==
  IF \E i \in 1..Len(pairs) : pairs[i][1] = key
  THEN [i \in 1..Len(pairs) |->
          IF pairs[i][1] = key THEN <<key, val>> ELSE pairs[i]]
  ELSE Append(pairs, <<key, val>>)

\* d.get(key, default)
DictGet(d, key, default) ==
  IF \E i \in 1..Len(d.v) : d.v[i][1] = key
  THEN d.v[CHOOSE i \in 1..Len(d.v) : d.v[i][1] = key][2]
  ELSE default

(***************************************************************************)
(* json.loads, character by character (json.decoder / json.scanner).       *)
(* A scan returns [ok, v, pos]: pos is the position of the next unread     *)
(* character (positions count from 1).                                    *)
(***************************************************************************)
Digits == {"0", "1", "2", "3", "4", "5", "6", "7", "8", "9"}

HexDigits ==
  Digits \cup {"a", "b", "c", "d", "e", "f", "A", "B", "C", "D", "E", "F"}

JsonWhitespace == {" ", "\t", "\n", "\r"}

\* characters str-literals may not hold unescaped (strict mode); the
\* control characters a TLA+ string can hold
ControlChars == {"\t", "\n", "\r", "\f"}

ScanFail == [ok |-> FALSE, v |-> PyNone, pos |-> 0]

ScanOk(val, next) == [ok |-> TRUE, v |-> val, pos |-> next]

\* s[i], or "" past the end
CharAt(s, i) == IF i >= 1 /\ i <= Len(s) THEN s[i] ELSE ""

\* the first position at or after i whose character is not in S
SkipWhile(s, i, S) ==
  LET stops == {j \in i..Len(s) : s[j] \notin S}
  IN IF stops = {} THEN Max(i, Len(s) + 1)
     ELSE CHOOSE j \in stops : \A m \in stops : j <= m

SkipWs(s, i) == SkipWhile(s, i, JsonWhitespace)

\* s[i:i+len(word)] == word
StartsWithAt(s, i, word) ==
  /\ i + Len(word) - 1 <= Len(s)
  /\ SubSeq(s, i, i + Len(word) - 1) = word

\* NUMBER_RE = (-?(?:0|[1-9]\d*))(\.\d+)?([eE][-+]?\d+)? matched at i: the
\* position after the match, or 0 when there is none
NumberEnd(s, i) ==
  LET p1 == IF CharAt(s, i) = "-" THEN i + 1 ELSE i
      p2 == IF CharAt(s, p1) = "0" THEN p1 + 1
            ELSE IF CharAt(s, p1) \in Digits THEN SkipWhile(s, p1, Digits)
            ELSE 0
      p3 == IF CharAt(s, p2) = "." /\ CharAt(s, p2 + 1) \in Digits
            THEN SkipWhile(s, p2 + 1, Digits) ELSE p2
      q  == IF CharAt(s, p3 + 1) \in {"+", "-"} THEN p3 + 2 ELSE p3 + 1
      p4 == IF CharAt(s, p3) \in {"e", "E"} /\ CharAt(s, q) \in Digits
            THEN SkipWhile(s, q, Digits) ELSE p3
  IN IF p2 = 0 THEN 0 ELSE p4

\* the printable ASCII characters, from code 32 (space) to code 126 (the
\* grave accent, which a TLA+ string cannot hold, by its code)
AsciiPrintable ==
  <<
    " ", "!", "\"", "#", "$", "%", "&", "'", "(", ")", "*", "+",
    ",", "-", ".", "/", "0", "1", "2", "3", "4", "5", "6", "7",
    "8", "9", ":", ";", "<", "=", ">", "?", "@", "A", "B", "C",
    "D", "E", "F", "G", "H", "I", "J", "K", "L", "M", "N", "O",
    "P", "Q", "R", "S", "T", "U", "V", "W", "X", "Y", "Z", "[",
    "\\", "]", "^", "_", "u+0060", "a", "b", "c", "d", "e", "f", "g",
    "h", "i", "j", "k", "l", "m", "n", "o", "p", "q", "r", "s",
    "t", "u", "v", "w", "x", "y", "z", "{", "|", "}", "~"
  >>

HexOrder ==
  <<"0", "1", "2", "3", "4", "5", "6", "7", "8", "9", "A", "B", "C", "D", "E", "F">>

HexUpper(c) ==
  CASE c = "a" -> "A" [] c = "b" -> "B" [] c = "c" -> "C"
    [] c = "d" -> "D" [] c = "e" -> "E" [] c = "f" -> "F" [] OTHER -> c

HexVal(c) == (CHOOSE i \in 1..16 : HexOrder[i] = HexUpper(c)) - 1

\* int(s[i:i+4], 16)
Hex4(s, i) ==
  4096 * HexVal(s[i]) + 256 * HexVal(s[i + 1]) + 16 * HexVal(s[i + 2]) + HexVal(s[i + 3])

\* a character outside the tables, named by its code in hexadecimal
CodeName(s, i) ==
  "u+" \o HexUpper(s[i]) \o HexUpper(s[i + 1]) \o HexUpper(s[i + 2]) \o HexUpper(s[i + 3])

\* chr(code) for the code written at s[i:i+4]
Chr4(s, i) ==
  LET code == Hex4(s, i)
  IN CASE code >= 32 /\ code <= 126 -> AsciiPrintable[code - 31]
       [] code = 9  -> "\t"
       [] code = 10 -> "\n"
       [] code = 12 -> "\f"
       [] code = 13 -> "\r"
       [] OTHER -> CodeName(s, i)

\* s[i:i+6] is \uXXXX
IsUniEscape(s, i) ==
  /\ CharAt(s, i) = "\\" /\ CharAt(s, i + 1) = "u"
  /\ \A k \in 2..5 : CharAt(s, i + k) \in HexDigits

\* the character a backslash escape stands for (BACKSLASH of json.decoder)
EscapeChars == {"\"", "\\", "/", "b", "f", "n", "r", "t"}

Unescape(c) ==
  CASE c = "b" -> "u+0008"
    [] c = "f" -> "\f"
    [] c = "n" -> "\n"
    [] c = "r" -> "\r"
    [] c = "t" -> "\t"
    [] OTHER   -> c

\* scanstring(s, i): i is the position after the opening quote
RECURSIVE ScanString(_, _, _)
ScanString(s, i, acc) ==
  LET c == CharAt(s, i)
  IN IF c = "" THEN ScanFail                         \* unterminated
     ELSE IF c = "\"" THEN ScanOk(PyStr(acc), i + 1)
     ELSE IF c \in ControlChars THEN ScanFail        \* invalid control character
     ELSE IF c # "\\" THEN ScanString(s, i + 1, Append(acc, c))
     ELSE LET e == CharAt(s, i + 1)
          IN IF e \in EscapeChars
             THEN ScanString(s, i + 2, Append(acc, Unescape(e)))
             ELSE IF ~IsUniEscape(s, i) THEN ScanFail
             ELSE IF /\ Hex4(s, i + 2) >= 55296 /\ Hex4(s, i + 2) <= 56319
                     /\ IsUniEscape(s, i + 6)
                     /\ Hex4(s, i + 8) >= 56320 /\ Hex4(s, i + 8) <= 57343
             THEN \* a surrogate pair: one character
                  ScanString(s, i + 12,
                             Append(acc, CodeName(s, i + 2) \o CodeName(s, i + 8)))
             ELSE ScanString(s, i + 6, Append(acc, Chr4(s, i + 2)))

RECURSIVE ScanOnce(_, _), ScanMembers(_, _, _), ScanItems(_, _, _)
\* JSONObject, after a key's opening quote at position i - 1
ScanMembers(s, i, pairs) ==
  LET key == ScanString(s, i, <<>>)
  IN IF ~key.ok THEN ScanFail
     ELSE LET colon == SkipWs(s, key.pos)
          IN IF CharAt(s, colon) # ":" THEN ScanFail
             ELSE LET val == ScanOnce(s, SkipWs(s, colon + 1))
                  IN IF ~val.ok THEN ScanFail
                     ELSE LET next == SkipWs(s, val.pos)
                              now  == DictSet(pairs, key.v.v, val.v)
                          IN IF CharAt(s, next) = "}"
                             THEN ScanOk(PyDict(now), next + 1)
                             ELSE IF CharAt(s, next) # "," THEN ScanFail
                             ELSE LET q == SkipWs(s, next + 1)
                                  IN IF CharAt(s, q) # "\"" THEN ScanFail
                                     ELSE ScanMembers(s, q + 1, now)

\* JSONArray, at the position i of the next element
ScanItems(s, i, elems) ==
  LET val == ScanOnce(s, i)
  IN IF ~val.ok THEN ScanFail
     ELSE LET next == SkipWs(s, val.pos)
              now  == Append(elems, val.v)
          IN IF CharAt(s, next) = "]" THEN ScanOk(PyList(now), next + 1)
             ELSE IF CharAt(s, next) # "," THEN ScanFail
             ELSE ScanItems(s, SkipWs(s, next + 1), now)

\* scan_once(s, i) of json.scanner
ScanOnce(s, i) ==
  LET c == CharAt(s, i)
  IN CASE c = "\"" -> ScanString(s, i + 1, <<>>)
       [] c = "{" ->
            LET q == SkipWs(s, i + 1)
            IN IF CharAt(s, q) = "}" THEN ScanOk(PyDict(<<>>), q + 1)
               ELSE IF CharAt(s, q) # "\"" THEN ScanFail
               ELSE ScanMembers(s, q + 1, <<>>)
       [] c = "[" ->
            LET q == SkipWs(s, i + 1)
            IN IF CharAt(s, q) = "]" THEN ScanOk(PyList(<<>>), q + 1)
               ELSE ScanItems(s, q, <<>>)
       [] c = "n" /\ StartsWithAt(s, i, <<"n", "u", "l", "l">>) ->
            ScanOk(PyNone, i + 4)
       [] c = "t" /\ StartsWithAt(s, i, <<"t", "r", "u", "e">>) ->
            ScanOk(PyBool(TRUE), i + 4)
       [] c = "f" /\ StartsWithAt(s, i, <<"f", "a", "l", "s", "e">>) ->
            ScanOk(PyBool(FALSE), i + 5)
       [] NumberEnd(s, i) # 0 ->
            ScanOk(PyNum(SubSeq(s, i, NumberEnd(s, i) - 1)), NumberEnd(s, i))
       [] c = "N" /\ StartsWithAt(s, i, <<"N", "a", "N">>) ->
            ScanOk(PyNum(<<"N", "a", "N">>), i + 3)
       [] c = "I" /\ StartsWithAt(s, i, <<"I", "n", "f", "i", "n", "i", "t", "y">>) ->
            ScanOk(PyNum(SubSeq(s, i, i + 7)), i + 8)
       [] c = "-" /\ StartsWithAt(s, i, <<"-", "I", "n", "f", "i", "n", "i", "t", "y">>) ->
            ScanOk(PyNum(SubSeq(s, i, i + 8)), i + 9)
       [] OTHER -> ScanFail

\* json.loads(s): one value, whitespace around it, nothing more.  ok is
\* FALSE where json.loads raises.
json_loads(s) ==
  LET val == ScanOnce(s, SkipWs(s, 1))
  IN IF val.ok /\ SkipWs(s, val.pos) = Len(s) + 1 THEN val ELSE ScanFail

(***************************************************************************)
(* str.find, str.rfind and slicing, with Python's indices (from 0; -1 for  *)
(* "not found"; a negative slice bound counts from the end)                *)
(***************************************************************************)
Find(s, ch) ==
  LET hits == {i \in 1..Len(s) : s[i] = ch}
  IN IF hits = {} THEN -1
     ELSE (CHOOSE i \in hits : \A j \in hits : i <= j) - 1

\* a slip: the first occurrence instead of the last
RFindFirst(s, ch) == Find(s, ch)

RFind(s, ch) ==
  LET hits == {i \in 1..Len(s) : s[i] = ch}
  IN IF hits = {} THEN -1
     ELSE (CHOOSE i \in hits : \A j \in hits : i >= j) - 1

\* s[a:b]
PySlice(s, a, b) ==
  LET n  == Len(s)
      lo == IF a < 0 THEN Max(a + n, 0) ELSE Min(a, n)
      hi == IF b < 0 THEN Max(b + n, 0) ELSE Min(b, n)
  IN IF hi <= lo THEN <<>> ELSE SubSeq(s, lo + 1, hi)

(***************************************************************************)
(* analyze, the parse of the generation output (lines 181-195)             *)
(***************************************************************************)
Key_c1 == <<"c", "1">>     \* "c1"

Key_c2 == <<"c", "2">>     \* "c2"

Key_c3 == <<"c", "3">>     \* "c3"

Key_c4 == <<"c", "4">>     \* "c4"

Key_mindmap == <<"m", "i", "n", "d", "m", "a", "p">>     \* "mindmap"

Key_narrative == <<"n", "a", "r", "r", "a", "t", "i", "v", "e">>     \* "narrative"

Key_root == <<"r", "o", "o", "t">>     \* "root"

Key_branches == <<"b", "r", "a", "n", "c", "h", "e", "s">>     \* "branches"

Key_edges == <<"e", "d", "g", "e", "s">>     \* "edges"

ParsingErrorNote == <<
    "P", "a", "r", "s", "i", "n", "g", " ", "e", "r", "r", "o", "r", ";",
    " ", "s", "e", "e", " ", "n", "a", "r", "r", "a", "t", "i", "v", "e",
    "."
  >>     \* "Parsing error; see narrative."

ProjectRoot == <<"P", "r", "o", "j", "e", "c", "t">>     \* "Project"

NodeId == <<"n", "o", "d", "e">>     \* "node"

MindmapHeader == <<
    "u+0060", "u+0060", "u+0060", "\n", "m", "e", "r", "m", "a", "i", "d",
    "\n", "m", "i", "n", "d", "m", "a", "p"
  >>     \* "```\nmermaid\nmindmap"

MindmapFooter == <<"u+0060", "u+0060", "u+0060">>     \* "```"

narrative_len == 4000      \* out[:4000]

\* out[start:end+1], with start = out.find("{") and end = out.rfind("}")
ParsedText(text) == PySlice(text, Find(text, "{"), RFind(text, "}") + 1)

DefaultMindmap ==
  PyDict(<< <<Key_root, PyStr(ProjectRoot)>>,
            <<Key_branches, PyList(<<>>)>>,
            <<Key_edges, PyList(<<>>)>> >>)

\* a slip: the narrative not cut
FallbackResultUncut(text) ==
  PyDict(<< <<Key_c1, PyStr(ParsingErrorNote)>>,
            <<Key_c2, PyStr(<<>>)>>,
            <<Key_c3, PyStr(<<>>)>>,
            <<Key_c4, PyStr(<<>>)>>,
            <<Key_mindmap, DefaultMindmap>>,
            <<Key_narrative, PyStr(text)>> >>)

\* the dict the except branch returns
FallbackResult(text) ==
  PyDict(<< <<Key_c1, PyStr(ParsingErrorNote)>>,
            <<Key_c2, PyStr(<<>>)>>,
            <<Key_c3, PyStr(<<>>)>>,
            <<Key_c4, PyStr(<<>>)>>,
            <<Key_mindmap, DefaultMindmap>>,
            <<Key_narrative, PyStr(Prefix(text, narrative_len))>> >>)

\* try: return json.loads(out[start:end+1])  except Exception: return {...}
analyze_parse(text) ==
  LET parsed == json_loads(ParsedText(text))
  IN IF parsed.ok THEN parsed.v ELSE FallbackResult(text)

(***************************************************************************)
(* emit_c4_plantuml (lines 200-246).  A document is the template's text    *)
(* before the note, the note as the f-string formats it, and the text      *)
(* after it.                                                               *)
(***************************************************************************)
\* what an f-string inserts for a value: the text of a str, None, True and
\* False; the repr of a number, a list or a dict is not spelled out
Format(val) ==
  CASE val.t = "str"  -> val.v
    [] val.t = "null" -> <<"N", "o", "n", "e">>
    [] val.t = "bool" -> IF val.v THEN <<"T", "r", "u", "e">>
                         ELSE <<"F", "a", "l", "s", "e">>
    [] OTHER -> <<"repr(" \o val.t \o ")">>

emit_c4_plantuml(c1, c2, c3, c4) ==
  [c1 |-> [head |-> "@startuml C1_Context\n!include https://raw.githubusercontent.com/plantuml-stdlib/C4-PlantUML/master/C4_Context.puml\ntitle C1: System Context\n' Auto-generated summary bullets in note\nnote as N1\n",
           note |-> Format(c1), tail |-> "\nend note\n@enduml\n"],
   c2 |-> [head |-> "@startuml C2_Containers\n!include https://raw.githubusercontent.com/plantuml-stdlib/C4-PlantUML/master/C4_Container.puml\ntitle C2: Containers\nnote as N2\n",
           note |-> Format(c2), tail |-> "\nend note\n@enduml\n"],
   c3 |-> [head |-> "@startuml C3_Components\n!include https://raw.githubusercontent.com/plantuml-stdlib/C4-PlantUML/master/C4_Component.puml\ntitle C3: Components\nnote as N3\n",
           note |-> Format(c3), tail |-> "\nend note\n@enduml\n"],
   c4 |-> [head |-> "@startuml C4_Code\ntitle C4: Code-Level Notes\nnote as N4\n",
           note |-> Format(c4), tail |-> "\nend note\n@enduml\n"]]

(***************************************************************************)
(* emit_mermaid_mindmap (lines 248-277)                                    *)
(***************************************************************************)
IsAlnum(c) ==
  \/ c \in Digits
  \/ \E i \in 1..Len(LowerLetters) : c = LowerLetters[i] \/ c = UpperLetters[i]

\* re.sub(r'[^A-Za-z0-9]+', '_', s)
RECURSIVE SubNonAlnum(_)
SubNonAlnum(s) ==
  IF s = <<>> THEN <<>>
  ELSE IF IsAlnum(Head(s)) THEN <<Head(s)>> \o SubNonAlnum(Tail(s))
  ELSE IF Len(s) >= 2 /\ ~IsAlnum(s[2]) THEN SubNonAlnum(Tail(s))
  ELSE <<"_">> \o SubNonAlnum(Tail(s))

\* s.strip(ch)
Strip(s, ch) ==
  LET keep == {i \in 1..Len(s) : s[i] # ch}
  IN IF keep = {} THEN <<>>
     ELSE SubSeq(s, CHOOSE i \in keep : \A j \in keep : i <= j,
                    CHOOSE i \in keep : \A j \in keep : i >= j)

\* norm = lambda s: re.sub(...,'_', s.lower()).strip("_") or "node"
norm(s) ==
  LET slug == Strip(SubNonAlnum(Lower(s)), "_")
  IN IF slug = <<>> THEN NodeId ELSE slug

\* whether `for x in val` can run, and what it yields
Iterable(val) == val.t \in {"list", "str", "dict"}

Iterate(val) ==
  CASE val.t = "list" -> val.v
    [] val.t = "str"  -> [i \in 1..Len(val.v) |-> PyStr(<<val.v[i]>>)]
    [] val.t = "dict" -> [i \in 1..Len(val.v) |-> PyStr(val.v[i][1])]

\* `for a, b in edges` unpacks e, and norm(a), norm(b) take a str
EdgeOk(e) ==
  /\ Iterable(e)
  /\ Len(Iterate(e)) = 2
  /\ Iterate(e)[1].t = "str"
  /\ Iterate(e)[2].t = "str"

\* emit_mermaid_mindmap raises (TypeError, ValueError or AttributeError)
MindmapRaises(branches, edges) ==
  \/ ~Iterable(branches)
  \/ \E i \in 1..Len(Iterate(branches)) : Iterate(branches)[i].t # "str"
  \/ ~Iterable(edges)
  \/ \E i \in 1..Len(Iterate(edges)) : ~EdgeOk(Iterate(edges)[i])

\* bmap.get(key, default) and `key in bmap`, bmap a sequence of pairs
BmapHas(bmap, key) == \E i \in 1..Len(bmap) : bmap[i][1] = key

BmapGet(bmap, key, default) ==
  IF BmapHas(bmap, key)
  THEN bmap[CHOOSE i \in 1..Len(bmap) : bmap[i][1] = key][2]
  ELSE default

DeclLine(id, label) == <<" ", " ", " ", " ">> \o id \o <<"(">> \o label \o <<")">>

LinkLine(from, to) ==
  <<" ", " ">> \o from \o <<" ", "-", "-", ">", " ">> \o to

\* for b in branches: ...   st = [lines, bmap]
RECURSIVE BranchLoop(_, _, _)
BranchLoop(bs, i, st) ==
  IF i > Len(bs) THEN st
  ELSE LET b   == bs[i].v
           bid == norm(b)
       IN BranchLoop(bs, i + 1,
            [lines |-> st.lines \o <<DeclLine(bid, b), LinkLine(Key_root, bid)>>,
             bmap  |-> DictSet(st.bmap, b, bid)])

\* for a, b in edges: ...
RECURSIVE EdgeLoop(_, _, _)
EdgeLoop(es, i, st) ==
  IF i > Len(es) THEN st
  ELSE LET a    == Iterate(es[i])[1].v
           b    == Iterate(es[i])[2].v
           aid  == BmapGet(st.bmap, a, norm(a))
           bid  == BmapGet(st.bmap, b, norm(b))
           st1  == IF ~BmapHas(st.bmap, a)
                   THEN [lines |-> st.lines
                                     \o <<DeclLine(aid, a), LinkLine(Key_root, aid)>>,
                         bmap  |-> DictSet(st.bmap, a, aid)]
                   ELSE st
           st2  == IF ~BmapHas(st1.bmap, b)
                   THEN [st1 EXCEPT !.lines =
                           @ \o <<DeclLine(bid, b), LinkLine(aid, bid)>>]
                   ELSE [st1 EXCEPT !.lines = @ \o <<LinkLine(aid, bid)>>]
       IN EdgeLoop(es, i + 1, st2)

\* "\n".join(lines)
RECURSIVE JoinLines(_)
JoinLines(ls) ==
  IF ls = <<>> THEN <<>>
  ELSE IF Len(ls) = 1 THEN ls[1]
  ELSE ls[1] \o <<"\n">> \o JoinLines(Tail(ls))

\* the text returned when nothing raises; root is not used by the source
emit_mermaid_mindmap(root, branches, edges) ==
  LET st0 == [lines |-> <<MindmapHeader>>, bmap |-> <<>>]
      st1 == BranchLoop(Iterate(branches), 1, st0)
      st2 == EdgeLoop(Iterate(edges), 1, st1)
  IN JoinLines(Append(st2.lines, MindmapFooter))

(***************************************************************************)
(* write_markdown_report (lines 282-315).  A line of README.md is the      *)
(* sequence of its pieces: literal text of the source, or inserted text.   *)
(***************************************************************************)
\* f"{k}.puml" for k, txt in c4_files.items()
PumlName(k) == k \o ".puml"

PumlNames(c4_files) == {PumlName(k) : k \in DOMAIN c4_files}

\* the md list
ReadmeLines(project_name, narrative, mindmap_text) ==
  << <<"# ", project_name, " - Architecture Report">>,
     <<"">>,
     <<"## Executive Summary">>,
     <<"">>,
     <<narrative>>,
     <<"">>,
     <<"## C4 Diagrams">>,
     <<"">>,
     <<"PlantUML sources are included for C1-C4 in this folder. Render them with PlantUML or integrate in your docs pipeline.">>,
     <<"">>,
     <<"Files:">>,
     <<"- C1: ", "C1.puml">>,
     <<"- C2: ", "C2.puml">>,
     <<"- C3: ", "C3.puml">>,
     <<"- C4 (notes): ", "C4.puml">>,
     <<"">>,
     <<"## Mind Map">>,
     <<"">>,
     <<"Mermaid mind map source:">>,
     <<"">>,
     <<mindmap_text>>,
     <<"">> >>

\* "\n".join(md) raises TypeError unless every item is a str
JoinRaises(narrative) == narrative.t # "str"

(***************************************************************************)
(* The generation outputs the parse is run on: prose, an embedded text,    *)
(* prose.                                                                  *)
(***************************************************************************)
\* Here is the answer: 
ProseHere ==
  <<
    "H", "e", "r", "e", " ", "i", "s", " ", "t", "h", "e", " ", "a", "n",
    "s", "w", "e", "r", ":", " "
  >>

\* } ok 
ProseCloseBrace ==
  <<"}", " ", "o", "k", " ">>

\* { 
ProseOpenBrace ==
  <<"{", " ">>

\*  Thanks.
ProseThanks ==
  <<" ", "T", "h", "a", "n", "k", "s", ".">>

\* {"c1":"A","c2":"B","c3":"C","c4":"D","mindmap":{"root":"R","branches":["X"],"edges":[]},"narrative":"N"}
AnswerFull ==
  <<
    "{", "\"", "c", "1", "\"", ":", "\"", "A", "\"", ",", "\"", "c", "2",
    "\"", ":", "\"", "B", "\"", ",", "\"", "c", "3", "\"", ":", "\"", "C",
    "\"", ",", "\"", "c", "4", "\"", ":", "\"", "D", "\"", ",", "\"", "m",
    "i", "n", "d", "m", "a", "p", "\"", ":", "{", "\"", "r", "o", "o", "t",
    "\"", ":", "\"", "R", "\"", ",", "\"", "b", "r", "a", "n", "c", "h",
    "e", "s", "\"", ":", "[", "\"", "X", "\"", "]", ",", "\"", "e", "d",
    "g", "e", "s", "\"", ":", "[", "]", "}", ",", "\"", "n", "a", "r", "r",
    "a", "t", "i", "v", "e", "\"", ":", "\"", "N", "\"", "}"
  >>

\* {"c1":"A","mindmap":{"root":"R","branches":["X","Y"],"edges":[["X","Y"],["Y","Z"]]},"narrative":"N"}
AnswerEdges ==
  <<
    "{", "\"", "c", "1", "\"", ":", "\"", "A", "\"", ",", "\"", "m", "i",
    "n", "d", "m", "a", "p", "\"", ":", "{", "\"", "r", "o", "o", "t",
    "\"", ":", "\"", "R", "\"", ",", "\"", "b", "r", "a", "n", "c", "h",
    "e", "s", "\"", ":", "[", "\"", "X", "\"", ",", "\"", "Y", "\"", "]",
    ",", "\"", "e", "d", "g", "e", "s", "\"", ":", "[", "[", "\"", "X",
    "\"", ",", "\"", "Y", "\"", "]", ",", "[", "\"", "Y", "\"", ",", "\"",
    "Z", "\"", "]", "]", "}", ",", "\"", "n", "a", "r", "r", "a", "t", "i",
    "v", "e", "\"", ":", "\"", "N", "\"", "}"
  >>

\* {}
AnswerEmpty ==
  <<"{", "}">>

\* {"c1":"a}b{"}
AnswerBraceInString ==
  <<"{", "\"", "c", "1", "\"", ":", "\"", "a", "}", "b", "{", "\"", "}">>

\* {"c1":null,"narrative":"N"}
AnswerNullNote ==
  <<
    "{", "\"", "c", "1", "\"", ":", "n", "u", "l", "l", ",", "\"", "n",
    "a", "r", "r", "a", "t", "i", "v", "e", "\"", ":", "\"", "N", "\"",
    "}"
  >>

\* {"mindmap":{"branches":"ab","edges":["xy"]}}
AnswerStringShapes ==
  <<
    "{", "\"", "m", "i", "n", "d", "m", "a", "p", "\"", ":", "{", "\"",
    "b", "r", "a", "n", "c", "h", "e", "s", "\"", ":", "\"", "a", "b",
    "\"", ",", "\"", "e", "d", "g", "e", "s", "\"", ":", "[", "\"", "x",
    "y", "\"", "]", "}", "}"
  >>

\* {"mindmap":[]}
AnswerMindmapList ==
  <<"{", "\"", "m", "i", "n", "d", "m", "a", "p", "\"", ":", "[", "]", "}">>

\* {"mindmap":null}
AnswerMindmapNull ==
  <<
    "{", "\"", "m", "i", "n", "d", "m", "a", "p", "\"", ":", "n", "u", "l",
    "l", "}"
  >>

\* {"mindmap":{"edges":[["a"]]}}
AnswerEdgeNotPair ==
  <<
    "{", "\"", "m", "i", "n", "d", "m", "a", "p", "\"", ":", "{", "\"",
    "e", "d", "g", "e", "s", "\"", ":", "[", "[", "\"", "a", "\"", "]",
    "]", "}", "}"
  >>

\* {"mindmap":{"branches":[1]}}
AnswerBranchNumber ==
  <<
    "{", "\"", "m", "i", "n", "d", "m", "a", "p", "\"", ":", "{", "\"",
    "b", "r", "a", "n", "c", "h", "e", "s", "\"", ":", "[", "1", "]", "}",
    "}"
  >>

\* {"narrative":null}
AnswerNullNarrative ==
  <<
    "{", "\"", "n", "a", "r", "r", "a", "t", "i", "v", "e", "\"", ":", "n",
    "u", "l", "l", "}"
  >>

\* {"c1":"A",}
AnswerTrailingComma ==
  <<"{", "\"", "c", "1", "\"", ":", "\"", "A", "\"", ",", "}">>

\* {"c1":"A"
AnswerUnclosed ==
  <<"{", "\"", "c", "1", "\"", ":", "\"", "A", "\"">>

\* {"c1":"A"} {"c2":"B"}
AnswerTwoObjects ==
  <<
    "{", "\"", "c", "1", "\"", ":", "\"", "A", "\"", "}", " ", "{", "\"",
    "c", "2", "\"", ":", "\"", "B", "\"", "}"
  >>

\* not json at all
AnswerNoJson ==
  <<
    "n", "o", "t", " ", "j", "s", "o", "n", " ", "a", "t", " ", "a", "l",
    "l"
  >>

\* prose longer than the narrative cut
LongProse == [i \in 1..(narrative_len + 1) |-> "x"]

MaxShort == 3

ShortAlphabet == {"{", "}", "x"}

ProseBefore == {<<>>, ProseHere, ProseCloseBrace, ProseOpenBrace, LongProse}

ProseAfter == {<<>>, ProseThanks, <<" ", "{">>, <<" ", "}">>}

Embedded ==
  { AnswerFull, AnswerEdges, AnswerEmpty, AnswerBraceInString, AnswerNullNote,
    AnswerStringShapes, AnswerMindmapList, AnswerMindmapNull,
    AnswerEdgeNotPair, AnswerBranchNumber, AnswerNullNarrative,
    AnswerTrailingComma, AnswerUnclosed, AnswerTwoObjects, AnswerNoJson }
  \cup SeqsUpTo(ShortAlphabet, MaxShort)

\* repo.project.path_with_namespace
ProjectName == "group/project"

(***************************************************************************)
(* Specification of the parse and of what main does with its result        *)
(* (lines 181-195 and 378-395)                                             *)
(***************************************************************************)
InitParse ==
  /\ pc = "parse"
  /\ prose_before \in ProseBefore
  /\ embedded \in Embedded
  /\ prose_after \in ProseAfter
  /\ out = prose_before \o embedded \o prose_after
  /\ parsed_text = <<>>
  /\ analysis = PyNone
  /\ c4_txts = <<>>
  /\ mindmap_mermaid = <<>>
  /\ written = {}
  /\ readme = <<>>
  /\ IdleSelect /\ IdleSnippets /\ IdleWalk /\ IdleMain

\* start = out.find("{") ... return parsed, or the except branch's dict
AnalyzeParse ==
  /\ pc = "parse"
  /\ parsed_text' = ParsedText(out)
  /\ analysis' = analyze_parse(out)
  /\ pc' = "emit"
  /\ UNCHANGED <<inputVars, c4_txts, mindmap_mermaid, written, readme,
                 selVars, snipVars, walkVars, mainVars>>

\* analysis.get("mindmap", {...})
MindmapOf(result) == DictGet(result, Key_mindmap, DefaultMindmap)

\* main, lines 385-390: mindmap.get raises unless mindmap is a dict, and
\* emit_mermaid_mindmap raises on branches or edges of another shape
EmitRaisesOn(result) ==
  \/ MindmapOf(result).t # "dict"
  \/ MindmapRaises(DictGet(MindmapOf(result), Key_branches, PyList(<<>>)),
                   DictGet(MindmapOf(result), Key_edges, PyList(<<>>)))

\* main, lines 379-390, when nothing raises
EmitDiagrams ==
  /\ pc = "emit"
  /\ ~EmitRaisesOn(analysis)
  /\ c4_txts' = emit_c4_plantuml(DictGet(analysis, Key_c1, PyStr(<<>>)),
                                 DictGet(analysis, Key_c2, PyStr(<<>>)),
                                 DictGet(analysis, Key_c3, PyStr(<<>>)),
                                 DictGet(analysis, Key_c4, PyStr(<<>>)))
  /\ mindmap_mermaid' =
       emit_mermaid_mindmap(
         DictGet(MindmapOf(analysis), Key_root, PyStr(ProjectRoot)),
         DictGet(MindmapOf(analysis), Key_branches, PyList(<<>>)),
         DictGet(MindmapOf(analysis), Key_edges, PyList(<<>>)))
  /\ pc' = "write"
  /\ UNCHANGED <<inputVars, parsed_text, analysis, written, readme,
                 selVars, snipVars, walkVars, mainVars>>

\* main, lines 379-390, when the mind map raises: the exception is not
\* caught and the run ends before anything is written
EmitRaises ==
  /\ pc = "emit"
  /\ EmitRaisesOn(analysis)
  /\ c4_txts' = emit_c4_plantuml(DictGet(analysis, Key_c1, PyStr(<<>>)),
                                 DictGet(analysis, Key_c2, PyStr(<<>>)),
                                 DictGet(analysis, Key_c3, PyStr(<<>>)),
                                 DictGet(analysis, Key_c4, PyStr(<<>>)))
  /\ pc' = "failed"
  /\ UNCHANGED <<inputVars, parsed_text, analysis, mindmap_mermaid, written,
                 readme, selVars, snipVars, walkVars, mainVars>>

\* write_markdown_report, when nothing raises
WriteReport ==
  /\ pc = "write"
  /\ ~JoinRaises(DictGet(analysis, Key_narrative, PyStr(<<>>)))
  /\ written' = PumlNames(c4_txts) \cup {"mindmap.mmd", "README.md"}
  /\ readme' = ReadmeLines(ProjectName,
                           DictGet(analysis, Key_narrative, PyStr(<<>>)).v,
                           mindmap_mermaid)
  /\ pc' = "done"
  /\ UNCHANGED <<inputVars, parsed_text, analysis, c4_txts, mindmap_mermaid,
                 selVars, snipVars, walkVars, mainVars>>

\* write_markdown_report, when the narrative is not a str: the diagram
\* files and mindmap.mmd are written, then "\n".join(md) raises
WriteReportRaises ==
  /\ pc = "write"
  /\ JoinRaises(DictGet(analysis, Key_narrative, PyStr(<<>>)))
  /\ written' = PumlNames(c4_txts) \cup {"mindmap.mmd"}
  /\ pc' = "failed"
  /\ UNCHANGED <<inputVars, parsed_text, analysis, c4_txts, mindmap_mermaid,
                 readme, selVars, snipVars, walkVars, mainVars>>

NextParse ==
  AnalyzeParse \/ EmitDiagrams \/ EmitRaises \/ WriteReport \/ WriteReportRaises

SpecParse == InitParse /\ [][NextParse]_vars


\* the text between the first "{" and the last "}" of text, both included;
\* empty when either is missing or the first "{" follows the last "}"
Braced(text) ==
  LET opens  == {i \in 1..Len(text) : text[i] = "{"}
      closes == {i \in 1..Len(text) : text[i] = "}"}
  IN IF opens = {} \/ closes = {} THEN <<>>
     ELSE LET first == CHOOSE i \in opens : \A j \in opens : i <= j
              last  == CHOOSE i \in closes : \A j \in closes : i >= j
          IN IF first > last THEN <<>>
             ELSE [i \in 1..(last - first + 1) |-> text[first + i - 1]]

\* no braces, the first "{" after the last "}", or invalid JSON between them
ParseFailure(text) == Braced(text) = <<>> \/ ~json_loads(Braced(text)).ok

\* the first 4000 characters of text
First4000(text) ==
  [i \in 1..(IF Len(text) <= 4000 THEN Len(text) ELSE 4000) |-> text[i]]

\* the degraded result but for c1: c2, c3, c4 empty, the narrative the
\* first 4000 characters of the output, the mind map the default one
DegradedButC1(result, text) ==
  /\ result.t = "dict"
  /\ {result.v[i][1] : i \in 1..Len(result.v)}
       = {Key_c1, Key_c2, Key_c3, Key_c4, Key_mindmap, Key_narrative}
  /\ \A k \in {Key_c2, Key_c3, Key_c4} : DictGet(result, k, PyNone) = PyStr(<<>>)
  /\ DictGet(result, Key_narrative, PyNone) = PyStr(First4000(text))
  /\ DictGet(result, Key_mindmap, PyNone)
       = PyDict(<< <<Key_root, PyStr(<<"P", "r", "o", "j", "e", "c", "t">>)>>,
                   <<Key_branches, PyList(<<>>)>>,
                   <<Key_edges, PyList(<<>>)>> >>)

\* C4 (as amended): on any parse failure of the generation output the
\* result has c2, c3 and c4 equal to the empty string, c1 equal to
\* "Parsing error; see narrative.", narrative equal to the first 4000
\* characters of the output, and mindmap equal to root "Project" with
\* empty branches and edges.
C4_DegradedResult ==
  (pc # "parse" /\ ParseFailure(out)) =>
    /\ DegradedButC1(analysis, out)
    /\ DictGet(analysis, Key_c1, PyNone) = PyStr(ParsingErrorNote)

\* C4 (as claimed): on any parse failure all four note fields are empty.
C4_AllNotesEmpty ==
  (pc # "parse" /\ ParseFailure(out)) =>
    /\ DegradedButC1(analysis, out)
    /\ DictGet(analysis, Key_c1, PyNone) = PyStr(<<>>)

\* a parse failure on an output longer than 4000 characters, with braces
C4_Witness ==
  /\ pc # "parse"
  /\ ParseFailure(out)
  /\ Len(out) > 4000
  /\ Braced(out) # <<>>
  /\ Len(DictGet(analysis, Key_narrative, PyNone).v) = 4000

IsStr(val) == val.t = "str"

\* C5: for every generation output the run after analyze never fails: main
\* reaches diagram emission and write_markdown_report with every note
\* field and the narrative present as a string.
C5_RunNeverFails ==
  /\ pc # "failed"
  /\ pc \in {"write", "done"} =>
       \A k \in {Key_c1, Key_c2, Key_c3, Key_c4, Key_narrative} :
         IsStr(DictGet(analysis, k, PyStr(<<>>)))

\* C6: when the output is a well-formed JSON object preceded by prose
\* without "{" and followed by prose without "}", the parsed text is
\* exactly the object and analyze returns exactly the object.
C6_EmbeddedObject ==
  ( /\ pc # "parse"
    /\ "{" \notin Range(prose_before)
    /\ "}" \notin Range(prose_after)
    /\ embedded # <<>>
    /\ Head(embedded) = "{" /\ embedded[Len(embedded)] = "}"
    /\ json_loads(embedded).ok )
  => /\ parsed_text = embedded
     /\ analysis = json_loads(embedded).v

\* an object with nested braces, a "}" in the prose before it and a "{" in
\* the prose after it
C6_Witness ==
  /\ pc # "parse"
  /\ "}" \in Range(prose_before) /\ "{" \notin Range(prose_before)
  /\ "{" \in Range(prose_after) /\ "}" \notin Range(prose_after)
  /\ json_loads(embedded).ok
  /\ Cardinality({i \in 1..Len(embedded) : embedded[i] = "}"}) >= 2
  /\ analysis = json_loads(embedded).v
  /\ DictGet(analysis, Key_narrative, PyNone) = PyStr(<<"N">>)

\* the file names README.md lists under "Files:"
ReadmePointers ==
  {readme[i][2] : i \in {j \in 1..Len(readme) : Len(readme[j]) = 2}}

\* C10: after a successful write_markdown_report, each diagram file name
\* the summary document lists is the name of a diagram file the call
\* wrote (its diagram-level key plus ".puml").
C10_PointersNameWrittenFiles ==
  pc = "done" =>
    /\ Cardinality(ReadmePointers) = 4
    /\ \A name \in ReadmePointers :
         /\ name \in written
         /\ \E k \in DOMAIN c4_txts : name = k \o ".puml"


(***************************************************************************)
(* ensure_env (lines 37-44) and the sequencing of main (lines 355-395):    *)
(* which network calls and file writes happen, in what order, and where    *)
(* the run ends.  The data the calls carry is left out here.               *)
(***************************************************************************)
RequiredEnv ==
  <<"GITLAB_PROJECT_ID", "GITLAB_TOKEN", "AZURE_OPENAI_ENDPOINT",
    "AZURE_OPENAI_API_KEY", "AZURE_OPENAI_DEPLOYMENT">>

\* what os.getenv(k) can return: None (here "<unset>"), "" or a value
EnvValues == {"<unset>", "", "value"}

\* a slip: only an unset name counts (os.getenv(k) is None)
IsMissingWhenUnset(v) == v = "<unset>"

\* not os.getenv(k)
IsMissing(v) == v = "<unset>" \/ v = ""

\* missing, after the for loop
MissingNames(e) == SelectSeq(RequiredEnv, LAMBDA k : IsMissing(e[k]))

MaxPages == 2

MaxFetch == 2

InitMain ==
  /\ pc = "ensure_env"
  /\ env \in [Range(RequiredEnv) -> EnvValues]
  /\ stderr = <<>>
  /\ exit_code = -1
  /\ net_calls = <<>>
  /\ pages = 0
  /\ to_fetch = 0
  /\ IdleSelect /\ IdleSnippets /\ IdleWalk /\ IdleParse

\* ensure_env returns: nothing is missing
EnsureEnvPasses ==
  /\ pc = "ensure_env"
  /\ MissingNames(env) = <<>>
  /\ pc' = "connect"
  /\ UNCHANGED <<mainVars, selVars, snipVars, walkVars, parseVars>>

\* ensure_env prints the missing names in one message and calls sys.exit(1)
EnsureEnvExits ==
  /\ pc = "ensure_env"
  /\ MissingNames(env) # <<>>
  /\ stderr' = Append(stderr, <<"Missing required environment variables: ",
                                MissingNames(env)>>)
  /\ exit_code' = 1
  /\ pc' = "exited"
  /\ UNCHANGED <<env, net_calls, pages, to_fetch,
                 selVars, snipVars, walkVars, parseVars>>

\* an exception nothing catches: the interpreter ends the run with status 1
Crash == pc' = "crashed" /\ exit_code' = 1

\* GitLabRepo.__init__ (lines 69-75): gl.auth(), then projects.get
Connect ==
  /\ pc = "connect"
  /\ \/ /\ net_calls' = net_calls \o <<"auth">>
        /\ Crash
     \/ /\ net_calls' = net_calls \o <<"auth", "projects.get">>
        /\ Crash
     \/ /\ net_calls' = net_calls \o <<"auth", "projects.get">>
        /\ pc' = "walk_tree"
        /\ UNCHANGED exit_code
  /\ UNCHANGED <<env, stderr, pages, to_fetch,
                 selVars, snipVars, walkVars, parseVars>>

\* walk_tree, one page request (line 94); after the last page main
\* summarizes the tree and samples at most 40 of its files (lines 360-363)
ListPage ==
  /\ pc = "walk_tree"
  /\ net_calls' = Append(net_calls, "repository_tree")
  /\ pages' = pages + 1
  /\ \/ Crash /\ UNCHANGED to_fetch
     \/ /\ pages + 1 < MaxPages
        /\ UNCHANGED <<pc, exit_code, to_fetch>>
     \/ /\ pc' = "fetch"
        /\ to_fetch' \in 0..MaxFetch
        /\ UNCHANGED exit_code
  /\ UNCHANGED <<env, stderr, selVars, snipVars, walkVars, parseVars>>

\* the loop over selected (lines 367-372): a path that is no text file is
\* skipped without a call
SkipFile ==
  /\ pc = "fetch"
  /\ to_fetch > 0
  /\ to_fetch' = to_fetch - 1
  /\ UNCHANGED <<pc, env, stderr, exit_code, net_calls, pages,
                 selVars, snipVars, walkVars, parseVars>>

\* repo.get_file (lines 103-110): one call; its exceptions are caught
FetchFile ==
  /\ pc = "fetch"
  /\ to_fetch > 0
  /\ to_fetch' = to_fetch - 1
  /\ net_calls' = Append(net_calls, "files.get")
  /\ UNCHANGED <<pc, env, stderr, exit_code, pages,
                 selVars, snipVars, walkVars, parseVars>>

\* az.analyze (lines 375-376): one generation request
Generate ==
  /\ pc = "fetch"
  /\ to_fetch = 0
  /\ net_calls' = Append(net_calls, "responses.create")
  /\ \/ Crash
     \/ pc' = "emit" /\ UNCHANGED exit_code
  /\ UNCHANGED <<env, stderr, pages, to_fetch,
                 selVars, snipVars, walkVars, parseVars>>

\* lines 379-390: the diagrams are emitted, or the mind map raises
EmitInMain ==
  /\ pc = "emit"
  /\ \/ Crash
     \/ pc' = "write" /\ UNCHANGED exit_code
  /\ UNCHANGED <<env, stderr, net_calls, pages, to_fetch,
                 selVars, snipVars, walkVars, parseVars>>

\* lines 393-395: project.path_with_namespace is an attribute of the
\* project already fetched; the report is written, or a write raises
WriteInMain ==
  /\ pc = "write"
  /\ \/ /\ written' \in {{}, {"c1.puml"},
                         {"c1.puml", "c2.puml", "c3.puml", "c4.puml", "mindmap.mmd"}}
        /\ Crash
     \/ /\ written' = {"c1.puml", "c2.puml", "c3.puml", "c4.puml",
                       "mindmap.mmd", "README.md"}
        /\ pc' = "done"
        /\ exit_code' = 0
  /\ UNCHANGED <<env, stderr, net_calls, pages, to_fetch, selVars, snipVars,
                 walkVars, inputVars, parsed_text, analysis, c4_txts,
                 mindmap_mermaid, readme>>

NextMain ==
  \/ EnsureEnvPasses \/ EnsureEnvExits \/ Connect \/ ListPage
  \/ SkipFile \/ FetchFile \/ Generate \/ EmitInMain \/ WriteInMain

SpecMain == InitMain /\ [][NextMain]_vars

\* the required names that are unset or empty, in the order of the check
NamesLacking ==
  SelectSeq(RequiredEnv, LAMBDA k : env[k] \in {"<unset>", ""})

\* C9: the check of the five required values completes before any network
\* call; if any is missing or empty the run reports all missing names in
\* one message, exits with status 1, makes no network call and writes no
\* file.
C9_CheckBeforeNetwork ==
  /\ (net_calls # <<>> \/ written # {}) =>
       (pc # "ensure_env" /\ NamesLacking = <<>>)
  /\ (NamesLacking # <<>> /\ pc # "ensure_env") =>
       /\ pc = "exited"
       /\ exit_code = 1
       /\ Len(stderr) = 1
       /\ stderr[1][2] = NamesLacking
       /\ net_calls = <<>>
       /\ written = {}

\* a run that exited on one unset and one empty name
C9_Witness ==
  /\ pc = "exited"
  /\ \E k \in Range(RequiredEnv) : env[k] = "<unset>"
  /\ \E k \in Range(RequiredEnv) : env[k] = ""
  /\ Len(stderr[1][2]) >= 2

====
